---- MODULE Spec2Model ----
(***************************************************************************)
(* Model of github.com/zackwwu/http-client-go: Client.New, Client.Do (with *)
(* Get/Head/Post), the functional options, the request-body capture, the  *)
(* tracing span set-up and the response-body wrapper.  One call of Do is  *)
(* split at its blocking points: the strategy delay and the transport     *)
(* call.  The caller's context, the per-attempt timers and the caller's   *)
(* Close of the response body are the environment.                        *)
(***************************************************************************)
EXTENDS Integers, Sequences, FiniteSets, TLC

\* ------------------------------------------------------------------ bounds
\* largest maxRetries a caller passes to WithRetryPolicy
MaxAttempts == 2
\* longest request body, in bytes
MaxLen == 2
\* how many times the caller calls Close on a returned response body
MaxCloses == 2
\* how many times Seek fails on a caller's io.ReadSeekCloser during a call
MaxSeekErrs == 1

\* ------------------------------------------------------- program constants
\* durations are in milliseconds
defaultReqTimeout == 5000
defaultMaxRetries == 10

\* ------------------------------------------------------------------ values
Nil == "nil"
Canceled == "context.Canceled"
DeadlineExceeded == "context.DeadlineExceeded"
\* retry.Do's initial error, returned when no attempt was permitted
internal == "have no any try"
errTransport == "transport error"
errRedirect == "stopped after 10 redirects"
errSeek == "seek error"
errRead == "read error"
errInject == "inject error"
errNewRequest == "invalid request"

\* net/http reports a context error of the request wrapped in *url.Error
UrlError(e) == "url.Error: " \o e
\* errors.Wrap(err, msg)
Wrap(e, msg) == msg \o ": " \o e

\* the bytes of a body of n bytes: position i holds byte i
Bytes(n) == [i \in 1..n |-> i]

\* ----------------------------------------------------------------- options
\* strategy.Limit(value) and the blocking back-off strategy
Limit(value) == [kind |-> "Limit", value |-> value]
StandardBackOffStrategy == [kind |-> "Backoff", value |-> 0]

\* a nil *retryPolicy
NoPolicy == [set |-> FALSE, requestTimeout |-> 0, retryStrategies |-> <<>>]

\* the options struct; tracingOptions is a pointer: 0 is nil, p > 0 is heap[p]
EmptyOptions == [operationName |-> "", tracingOptions |-> 0, retryPolicy |-> NoPolicy]

\* st is [o |-> options struct, heap |-> the tracingOptions objects allocated]
WithRetryPolicy(st, requestTimeout, maxRetries, strategies) ==
    [st EXCEPT !.o.retryPolicy =
        [set |-> TRUE, requestTimeout |-> requestTimeout,
         retryStrategies |-> <<Limit(maxRetries)>> \o strategies]]

\* a standard policy with the back-off before the limit
WithStandardRetryPolicyLimitLast(st, requestTimeout, maxRetries) ==
    [st EXCEPT !.o.retryPolicy =
        [set |-> TRUE, requestTimeout |-> requestTimeout,
         retryStrategies |-> <<StandardBackOffStrategy, Limit(maxRetries)>>]]

WithStandardRetryPolicy(st, requestTimeout, maxRetries) ==
    [st EXCEPT !.o.retryPolicy =
        [set |-> TRUE, requestTimeout |-> requestTimeout,
         retryStrategies |-> <<Limit(maxRetries), StandardBackOffStrategy>>]]

\* a WithTracingOptions that always installs a tracingOptions of its own
WithTracingOptionsReplaces(st, enabled, operationName, spanOptions) ==
    [o |-> [st.o EXCEPT !.operationName = operationName,
                        !.tracingOptions = Len(st.heap) + 1],
     heap |-> Append(st.heap, [enabled |-> enabled, injectCarrier |-> FALSE,
                               spanOptions |-> spanOptions])]

WithTracingOptions(st, enabled, operationName, spanOptions) ==
    IF st.o.tracingOptions = 0
    THEN [o |-> [st.o EXCEPT !.operationName = operationName,
                             !.tracingOptions = Len(st.heap) + 1],
          heap |-> Append(st.heap, [enabled |-> enabled, injectCarrier |-> FALSE,
                                    spanOptions |-> spanOptions])]
    ELSE [o |-> [st.o EXCEPT !.operationName = operationName],
          heap |-> [st.heap EXCEPT ![st.o.tracingOptions].enabled = enabled,
                                   ![st.o.tracingOptions].spanOptions = spanOptions]]

WithSpanCarrierInjected(st) ==
    IF st.o.tracingOptions = 0
    THEN [o |-> [st.o EXCEPT !.tracingOptions = Len(st.heap) + 1],
          heap |-> Append(st.heap, [enabled |-> FALSE, injectCarrier |-> TRUE,
                                    spanOptions |-> <<>>])]
    ELSE [o |-> st.o,
          heap |-> [st.heap EXCEPT ![st.o.tracingOptions].injectCarrier = TRUE]]

\* an Option value is a record naming the constructor and its arguments
OptRetry(t, n) ==
    [opt |-> "WithRetryPolicy", requestTimeout |-> t, maxRetries |-> n,
     strategies |-> <<>>,
     enabled |-> FALSE, operationName |-> "", spanOptions |-> <<>>]
\* WithRetryPolicy with strategies of the caller after the two arguments
OptRetryWith(t, n, strategies) ==
    [OptRetry(t, n) EXCEPT !.strategies = strategies]
OptStdRetry(t, n) ==
    [opt |-> "WithStandardRetryPolicy", requestTimeout |-> t, maxRetries |-> n,
     enabled |-> FALSE, operationName |-> "", spanOptions |-> <<>>]
OptTracing(e, name, so) ==
    [opt |-> "WithTracingOptions", requestTimeout |-> 0, maxRetries |-> 0,
     enabled |-> e, operationName |-> name, spanOptions |-> so]
OptInject ==
    [opt |-> "WithSpanCarrierInjected", requestTimeout |-> 0, maxRetries |-> 0,
     enabled |-> FALSE, operationName |-> "", spanOptions |-> <<>>]

\* funcOption.apply
apply(st, fo) ==
    CASE fo.opt = "WithRetryPolicy" ->
            WithRetryPolicy(st, fo.requestTimeout, fo.maxRetries, fo.strategies)
      [] fo.opt = "WithStandardRetryPolicy" ->
            WithStandardRetryPolicy(st, fo.requestTimeout, fo.maxRetries)
      [] fo.opt = "WithTracingOptions" ->
            WithTracingOptions(st, fo.enabled, fo.operationName, fo.spanOptions)
      [] OTHER -> WithSpanCarrierInjected(st)

\* for _, o := range opts { o.apply(&opts, generator) }
RECURSIVE applyAll(_, _)
applyAll(st, opts) ==
    IF opts = <<>> THEN st ELSE applyAll(apply(st, Head(opts)), Tail(opts))

\* New(opts...): the client's options and the heap after construction
New(opts) ==
    LET st == applyAll([o |-> EmptyOptions, heap |-> <<>>], opts)
    IN  IF ~st.o.retryPolicy.set
        THEN WithStandardRetryPolicy(st, defaultReqTimeout, defaultMaxRetries)
        ELSE st

\* the option lists the model's callers pass to New and to Do
ClientOptLists ==
    {<<>>} \cup {<<OptRetry(500, n)>> : n \in 0..MaxAttempts}
           \cup {<<OptStdRetry(500, MaxAttempts)>>}
           \cup {<<OptRetry(0, 1), OptInject>>,
                 <<OptRetry(0, 1), OptTracing(TRUE, "op", <<"tag">>), OptInject>>}
CallOptLists ==
    {<<>>, <<OptRetry(0, MaxAttempts)>>,
     <<OptRetryWith(0, 1, <<StandardBackOffStrategy>>)>>,
     <<OptTracing(TRUE, "call", <<>>)>>, <<OptTracing(FALSE, "", <<>>)>>,
     <<OptInject>>}

\* ------------------------------------------------------------------- state
VARIABLES
    options,       \* Client.options: the client-wide defaults
    configured,    \* what New was given and what it made of it
    callOpts,      \* the options the caller passed to this call
    gen,           \* the calls that are inside Client.generator
    peerPc,        \* where a second, concurrent call on the same client is
    heap,          \* the tracingOptions objects that options structs point to
    pc,            \* where the current call is
    requestOpts,   \* Do: the options of this call
    origBody,      \* the body the caller put in the request
    reqBody,       \* Do: reqBody, the replayable body
    ctxErr,        \* Err() of the caller's context; Nil while it is not done
    cancelPhase,   \* where the call was when the caller's context was done
    callsAtCancel, \* transport invocations started before that moment
    attempt,       \* retry.Do: attempt
    should,        \* retry.Do: should
    err,           \* retry.Do: err, then Do: err
    stratIdx,      \* retry.Do: the strategy that is blocking
    resp,          \* Do: resp, 0 is nil, i is the response of invocation i
    attemptCount,  \* Do: attemptCount
    observed,      \* per transport invocation: the body bytes it was given
    okAt,          \* the transport invocation that returned a response without error
    rewoundFrom,   \* the body offset that the Seek of the attempt in flight found
    rewindErrs,    \* runs of action that ended at a failing Seek
    timer,         \* the context of the latest attempt: the state of its
                   \* timeout and the calls of its cancelFunc
    leaked,        \* contexts of earlier attempts whose cancelFunc was never called
    bodyCloses,    \* Close calls on resp.Body
    wrapped,       \* resp.Body is a responseBodyReadCloser
    lastOut,       \* how the most recent run of action ended
    lastErr,       \* the error the most recent run of action returned
    exit,          \* which return path the call took
    trace,         \* the tracing backend: spans, log fields, tags, headers
    ret            \* what the call returned: [resp, err]

vars == <<options, configured, callOpts, gen, peerPc, heap, pc, requestOpts, origBody, reqBody, ctxErr,
          cancelPhase, callsAtCancel, attempt, should, err, stratIdx, resp,
          attemptCount, observed, okAt, rewoundFrom, rewindErrs, timer, leaked,
          bodyCloses, wrapped, lastOut, lastErr, exit, trace, ret>>

NoTimer == [state |-> "none", cancels |-> 0]
NoBody == [present |-> FALSE, isRSC |-> FALSE, data |-> <<>>, off |-> 0,
           closeCount |-> 0, readErr |-> FALSE, seekErr |-> 0]
NilReqBody == [kind |-> "nil", data |-> <<>>, off |-> 0, closeCalls |-> 0]
NoTrace == [started |-> 0, finished |-> 0, sp |-> FALSE, ctxSpan |-> FALSE,
            opName |-> "", injected |-> FALSE, injectErr |-> FALSE,
            log |-> <<>>,
            tagMethod |-> "", tagOptions |-> <<>>, tagAttemptCount |-> -1,
            tagError |-> FALSE, tagStatus |-> FALSE]

\* the request bodies callers supply: none, a plain reader (strings.Reader,
\* possibly failing to read), or a caller's own io.ReadSeekCloser (seekErr
\* of whose calls of Seek fail, at any time)
Bodies ==
    {NoBody}
      \cup {[NoBody EXCEPT !.present = TRUE, !.data = Bytes(n)] : n \in 0..MaxLen}
      \cup {[NoBody EXCEPT !.present = TRUE, !.data = Bytes(MaxLen), !.readErr = TRUE]}
      \cup {[NoBody EXCEPT !.present = TRUE, !.isRSC = TRUE, !.data = Bytes(MaxLen),
                           !.seekErr = se] : se \in 0..MaxSeekErrs}

\* the tracingOptions the options struct points to
TracingOf(o, h) ==
    IF o.tracingOptions = 0
    THEN [set |-> FALSE, enabled |-> FALSE, injectCarrier |-> FALSE, spanOptions |-> <<>>]
    ELSE [set |-> TRUE, enabled |-> h[o.tracingOptions].enabled,
          injectCarrier |-> h[o.tracingOptions].injectCarrier,
          spanOptions |-> h[o.tracingOptions].spanOptions]

\* the state of one call before it starts
IdleCall ==
    /\ pc = "idle"
    /\ callOpts = <<>>
    /\ gen = {}
    /\ peerPc = "idle"
    /\ requestOpts = EmptyOptions
    /\ origBody = NoBody
    /\ reqBody = NilReqBody
    /\ ctxErr = Nil
    /\ cancelPhase = "none"
    /\ callsAtCancel = 0
    /\ attempt = 0
    /\ should = TRUE
    /\ err = Nil
    /\ stratIdx = 0
    /\ resp = 0
    /\ attemptCount = 0
    /\ observed = <<>>
    /\ okAt = 0
    /\ rewoundFrom = 0
    /\ rewindErrs = 0
    /\ timer = NoTimer
    /\ leaked = 0
    /\ bodyCloses = 0
    /\ wrapped = FALSE
    /\ lastOut = "none"
    /\ lastErr = Nil
    /\ exit = "none"
    /\ trace = NoTrace
    /\ ret = [resp |-> 0, err |-> Nil]

Init ==
    /\ \E opts \in ClientOptLists :
          /\ options = New(opts).o
          /\ heap = New(opts).heap
          /\ configured = [opts |-> opts, o |-> New(opts).o,
                           tracing |-> TracingOf(New(opts).o, New(opts).heap)]
    /\ IdleCall

\* the calls the model's callers make: Do with any body, Get and Head (no
\* body), Post with a plain reader; urlOk FALSE makes
\* http.NewRequestWithContext fail
Requests ==
    {[entry |-> "Do", body |-> b, urlOk |-> TRUE] : b \in Bodies}
      \cup {[entry |-> e, body |-> NoBody, urlOk |-> u] :
                e \in {"Get", "Head"}, u \in BOOLEAN}
      \cup {[entry |-> "Post",
             body |-> [NoBody EXCEPT !.present = TRUE, !.data = Bytes(MaxLen)],
             urlOk |-> u] : u \in BOOLEAN}

\* ----------------------------------------------------------------- helpers
\* a capture without the deferred req.Body.Close()
getRequestBodyLeftOpen(body) ==
    IF body.isRSC
    THEN [rb |-> [NilReqBody EXCEPT !.kind = "orig"], orig |-> body, err |-> Nil]
    ELSE IF body.readErr
    THEN [rb |-> NilReqBody, orig |-> body, err |-> errRead]
    ELSE [rb |-> [NilReqBody EXCEPT !.kind = "bytes",
                     !.data = SubSeq(body.data, body.off + 1, Len(body.data))],
          orig |-> [body EXCEPT !.off = Len(body.data)],
          err |-> Nil]

\* getRequestBodyReadSeekCloser: a body that is an io.ReadSeekCloser is
\* returned as it is; any other is read to its end from where it stands,
\* closed, and replaced by NewBytesSeekReader of the bytes read
getRequestBodyReadSeekCloser(body) ==
    IF body.isRSC
    THEN [rb |-> [NilReqBody EXCEPT !.kind = "orig"], orig |-> body, err |-> Nil]
    ELSE IF body.readErr
    THEN [rb |-> NilReqBody,
          orig |-> [body EXCEPT !.closeCount = @ + 1],
          err |-> errRead]
    ELSE [rb |-> [NilReqBody EXCEPT !.kind = "bytes",
                     !.data = SubSeq(body.data, body.off + 1, Len(body.data))],
          orig |-> [body EXCEPT !.off = Len(body.data), !.closeCount = @ + 1],
          err |-> Nil]

\* the span StartSpanFromContext starts
startedSpan(method, o, h) ==
    [NoTrace EXCEPT !.started = 1,
                    !.opName = IF o.operationName # ""
                               THEN "HTTP Egress - " \o o.operationName
                               ELSE "HTTP Egress",
                    !.tagMethod = method,
                    !.tagOptions = TracingOf(o, h).spanOptions]

\* a startAndInjectSpan that takes any tracingOptions for tracing enabled
startAndInjectSpanUnlessNil(method, o, h, injectFails) ==
    LET t == TracingOf(o, h)
        started == startedSpan(method, o, h)
    IN  IF ~t.set
        THEN [trace |-> NoTrace, err |-> Nil]
        ELSE IF t.injectCarrier /\ injectFails
        THEN [trace |-> [started EXCEPT !.injectErr = TRUE], err |-> errInject]
        ELSE [trace |-> [started EXCEPT !.sp = TRUE, !.ctxSpan = TRUE,
                                        !.injected = t.injectCarrier],
              err |-> Nil]

\* a startAndInjectSpan that goes on without the carrier when Inject fails
startAndInjectSpanIgnoresInjectError(method, o, h, injectFails) ==
    LET t == TracingOf(o, h)
        started == startedSpan(method, o, h)
    IN  IF ~t.set \/ ~t.enabled
        THEN [trace |-> NoTrace, err |-> Nil]
        ELSE [trace |-> [started EXCEPT !.sp = TRUE, !.ctxSpan = TRUE,
                                        !.injected = t.injectCarrier /\ ~injectFails,
                                        !.injectErr = t.injectCarrier /\ injectFails],
              err |-> Nil]

\* startAndInjectSpan: what it does to the tracing backend and what it returns
startAndInjectSpan(method, o, h, injectFails) ==
    LET t == TracingOf(o, h)
        started == startedSpan(method, o, h)
    IN  IF ~t.set \/ ~t.enabled
        THEN [trace |-> NoTrace, err |-> Nil]
        ELSE IF t.injectCarrier /\ injectFails
        THEN [trace |-> [started EXCEPT !.injectErr = TRUE], err |-> errInject]
        ELSE [trace |-> [started EXCEPT !.sp = TRUE, !.ctxSpan = TRUE,
                                        !.injected = t.injectCarrier],
              err |-> Nil]

\* a Do without the deferred reqBody.Close()
closeReqBodyNever(rb, orig) == [rb |-> rb, orig |-> orig]

\* reqBody.Close(): the caller's io.ReadSeekCloser is closed; Close of a
\* BytesReadSeekCloser does nothing
closeReqBody(rb, orig) ==
    IF rb.kind = "nil" THEN [rb |-> rb, orig |-> orig]
    ELSE [rb |-> [rb EXCEPT !.closeCalls = @ + 1],
          orig |-> IF rb.kind = "orig"
                   THEN [orig EXCEPT !.closeCount = @ + 1] ELSE orig]

\* the bytes and the read offset of the replayable body
reqBodyData == IF reqBody.kind = "orig" THEN origBody.data ELSE reqBody.data
reqBodyOff == IF reqBody.kind = "orig" THEN origBody.off ELSE reqBody.off

\* jitter.NormalDistribution(generator, stdDeviation): the call goes into
\* generator.NormFloat64() as it is, with no lock around the *rand.Rand
generatorEnter(g, who) == g \cup {who}
generatorLeave(g, who) == g \ {who}

\* a limit that lets one attempt too many through
LimitAllowsOneMore(value, att) == att <= value

\* strategy.Limit
LimitAllows(value, att) == att < value

\* retry.Do: the strategies from index i on are asked in order about attempt
\* att; the first that declines ends the round, and a back-off strategy blocks
\* (it waits before every attempt but the first)
RECURSIVE evalStrategies(_, _, _)
evalStrategies(strategies, i, att) ==
    IF i > Len(strategies) THEN [should |-> TRUE, block |-> 0]
    ELSE IF strategies[i].kind = "Limit"
    THEN IF LimitAllows(strategies[i].value, att)
         THEN evalStrategies(strategies, i + 1, att)
         ELSE [should |-> FALSE, block |-> 0]
    ELSE IF att > 0
         THEN [should |-> TRUE, block |-> i]
         ELSE evalStrategies(strategies, i + 1, att)

\* a loop that goes on after an action without error
repeatAlways(sh, e) == sh

\* retry.Do: should = should && err != nil, after the select
repeat(sh, e) == sh /\ e # Nil

\* a breaker that is never done, as context.Background() would be
breakerBackground(cErr) == Nil

\* the strategy.Breaker that Do hands to retry.Do is the context of the
\* request: its Err()
breakerErr(cErr) == cErr

\* context.WithTimeout when requestTimeout is not zero; otherwise the attempt
\* runs under the context of the call and has no cancelFunc
WithTimeout(requestTimeout) ==
    [state |-> IF requestTimeout # 0 THEN "running" ELSE "none", cancels |-> 0]

\* a context with a timeout whose cancelFunc has not been called
live(c) == c.state # "none" /\ c.cancels = 0

\* cancelFunc(): the context is cancelled and its timer released
cancelFunc(c) == [state |-> "cancelled", cancels |-> c.cancels + 1]

\* a failure path that forgets the cancelFunc
onFailureNoCancel(c) == c

\* action after a failed transport call: if cancelFunc != nil { cancelFunc() }
onFailure(c) == IF c.state # "none" THEN cancelFunc(c) ELSE c

\* a success path that calls the cancelFunc before the caller has the response
onSuccessCancels(c) == IF c.state # "none" THEN cancelFunc(c) ELSE c

\* a success path that stops the timer of the attempt without calling cancelFunc
onSuccessStopsTimer(c) == IF c.state # "none" THEN [c EXCEPT !.state = "cancelled"] ELSE c

\* action after a transport call that returned a response: the context of the
\* attempt is left as it is, its cancelFunc goes into the responseBodyReadCloser
onSuccess(c) == c

\* a Close that calls the cancelFunc the first time only
responseBodyCloseOnce(c, isWrapped) ==
    IF isWrapped /\ c.state # "none" /\ c.cancels = 0 THEN cancelFunc(c) ELSE c

\* responseBodyReadCloser.Close: if rc.cancelFunc != nil { defer rc.cancelFunc() };
\* a body that was never wrapped has no cancelFunc to call
responseBodyClose(c, isWrapped) ==
    IF isWrapped /\ c.state # "none" THEN cancelFunc(c) ELSE c

\* an action that goes on to the transport after a failed Seek
actionSeekIgnoresError(seekFails) == Nil

\* action: _, aErr = reqBody.Seek(0, io.SeekStart); if aErr != nil { return aErr }
actionSeek(seekFails) == IF seekFails THEN errSeek ELSE Nil

\* a counter that counts the attempts that returned a response only
countAttemptOnSuccess(n, aErr) == IF aErr = Nil THEN n + 1 ELSE n

\* action: attemptCount++ right after c.client.Do, before its error is looked at
countAttempt(n, aErr) == n + 1

\* a Seek that leaves the offset where it is
SeekCurrent(off) == off

\* reqBody.Seek(0, io.SeekStart): the offset after it
SeekStart(off) == 0

\* a request body handed to the transport without io.NopCloser
closeUnderlying(rb, orig) == closeReqBody(rb, orig)

\* Close of the io.NopCloser the transport was given as request body: the
\* reqBody inside is not closed
closeNopCloser(rb, orig) == [rb |-> rb, orig |-> orig]

\* a return that keeps the response beside the error
returnedWithResp(r, e) == [resp |-> r, err |-> e]

\* a return that wraps the error of retry.Do
returnedWrapped(r, e) ==
    IF e # Nil THEN [resp |-> 0, err |-> Wrap(e, "error sending request")]
    ELSE [resp |-> r, err |-> Nil]

\* Do's two ways out after retry.Do: (nil, err) and (resp, nil)
returned(r, e) ==
    IF e # Nil THEN [resp |-> 0, err |-> e] ELSE [resp |-> r, err |-> Nil]

\* http.NewRequestWithContext's method for the entry point
MethodOf(r) ==
    CASE r.entry = "Get" -> "GET"
      [] r.entry = "Head" -> "HEAD"
      [] r.entry = "Post" -> "POST"
      [] OTHER -> IF r.body.present THEN "POST" ELSE "GET"

\* ----------------------------------------------------------------- actions
\* Get/Head/Post build the request and forward to Do.  Do, up to the call
\* of retry.Do: merge the options of the call over the client's, capture
\* the body, start the span.  Each failure returns at once; the deferred
\* reqBody.Close() runs on the returns after the capture.
Do(r, opts, injectFails) ==
    LET merged == applyAll([o |-> options, heap |-> heap], opts)
        cap == IF r.body.present
               THEN getRequestBodyReadSeekCloser(r.body)
               ELSE [rb |-> NilReqBody, orig |-> r.body, err |-> Nil]
        spn == startAndInjectSpan(MethodOf(r), merged.o, merged.heap, injectFails)
        dfr == closeReqBody(cap.rb, cap.orig)
        path == IF ~r.urlOk THEN "newrequest"
                ELSE IF cap.err # Nil THEN "bodyprep"
                ELSE IF spn.err # Nil THEN "span"
                ELSE "loop"
    IN  /\ pc = "idle"
        /\ injectFails =>
              /\ TracingOf(merged.o, merged.heap).enabled
              /\ TracingOf(merged.o, merged.heap).injectCarrier
        /\ heap' = IF path = "newrequest" THEN heap ELSE merged.heap
        /\ requestOpts' = IF path = "newrequest" THEN requestOpts ELSE merged.o
        /\ origBody' = CASE path = "newrequest" -> r.body
                         [] path = "span" -> dfr.orig
                         [] OTHER -> cap.orig
        /\ reqBody' = CASE path = "span" -> dfr.rb
                        [] path = "loop" -> cap.rb
                        [] OTHER -> NilReqBody
        /\ trace' = IF path \in {"span", "loop"} THEN spn.trace ELSE trace
        /\ ret' = CASE path = "newrequest" ->
                         [resp |-> 0, err |-> Wrap(errNewRequest, "error creating request")]
                    [] path = "bodyprep" ->
                         [resp |-> 0, err |-> Wrap(cap.err, "error preparing request body")]
                    [] path = "span" ->
                         [resp |-> 0,
                          err |-> Wrap(spn.err, "error starting and injecting tracing span")]
                    [] OTHER -> ret
        /\ exit' = IF path = "loop" THEN exit ELSE path
        /\ pc' = IF path = "loop" THEN "strategies" ELSE "done"
        /\ err' = IF path = "loop" THEN internal ELSE err
        /\ attempt' = 0
        /\ should' = TRUE
        /\ callOpts' = opts
        /\ UNCHANGED <<options, configured, gen, peerPc, ctxErr, cancelPhase, callsAtCancel, stratIdx,
                       resp, attemptCount, observed, okAt, rewoundFrom, rewindErrs, timer, leaked,
                       bodyCloses, wrapped, lastOut, lastErr>>

\* retry.Do, top of the loop: the strategies are asked about this attempt
Strategies ==
    LET r == evalStrategies(requestOpts.retryPolicy.retryStrategies, 1, attempt)
    IN  /\ pc = "strategies"
        /\ IF r.block > 0
           THEN /\ pc' = "jitter"
                /\ stratIdx' = r.block
                /\ should' = should
                /\ gen' = generatorEnter(gen, "call")
           ELSE /\ pc' = "select"
                /\ stratIdx' = 0
                /\ should' = r.should
                /\ gen' = gen
        /\ UNCHANGED <<options, configured, callOpts, peerPc, heap, requestOpts, origBody, reqBody,
                       ctxErr, cancelPhase, callsAtCancel, attempt, err, resp,
                       attemptCount, observed, okAt, rewoundFrom, rewindErrs, timer, leaked,
                       bodyCloses, wrapped, lastOut, lastErr, exit, trace, ret>>

\* the jitter of the back-off strategy has its random number: the call leaves
\* the generator and the strategy starts its wait
Jitter ==
    /\ pc = "jitter"
    /\ pc' = "delay"
    /\ gen' = generatorLeave(gen, "call")
    /\ UNCHANGED <<options, configured, callOpts, peerPc, heap, requestOpts, origBody,
                   reqBody, ctxErr, cancelPhase, callsAtCancel, attempt, should,
                   err, stratIdx, resp, attemptCount, observed, okAt, rewoundFrom,
                   rewindErrs, timer, leaked, bodyCloses, wrapped, lastOut,
                   lastErr, exit, trace, ret>>

\* the back-off strategy's wait ends: its timer ran out (it allows the
\* attempt, and the strategies after it are asked), or the caller's context
\* is done (it declines)
DelayEnd(byDone) ==
    LET r == evalStrategies(requestOpts.retryPolicy.retryStrategies, stratIdx + 1, attempt)
    IN  /\ pc = "delay"
        /\ byDone => breakerErr(ctxErr) # Nil
        /\ pc' = "select"
        /\ stratIdx' = 0
        /\ should' = IF byDone THEN FALSE ELSE r.should
        /\ UNCHANGED <<options, configured, callOpts, gen, peerPc, heap, requestOpts, origBody, reqBody,
                       ctxErr, cancelPhase, callsAtCancel, attempt, err, resp,
                       attemptCount, observed, okAt, rewoundFrom, rewindErrs, timer, leaked,
                       bodyCloses, wrapped, lastOut, lastErr, exit, trace, ret>>

\* retry.Do's select: a done context ends the loop with its Err(); otherwise
\* the action runs if the strategies allowed it, and the loop ends with the
\* last error if they did not
Select ==
    /\ pc = "select"
    /\ IF breakerErr(ctxErr) # Nil
       THEN /\ err' = breakerErr(ctxErr)
            /\ exit' = "cancelled"
            /\ pc' = "after"
            /\ should' = should
       ELSE IF should
       THEN /\ pc' = "action"
            /\ UNCHANGED <<err, exit, should>>
       ELSE /\ pc' = "after"
            /\ exit' = "exhausted"
            /\ UNCHANGED <<err, should>>
    /\ UNCHANGED <<options, configured, callOpts, gen, peerPc, heap, requestOpts, origBody, reqBody,
                   ctxErr, cancelPhase, callsAtCancel, attempt, stratIdx, resp,
                   attemptCount, observed, okAt, rewoundFrom, rewindErrs, timer, leaked,
                   bodyCloses, wrapped, lastOut, lastErr, trace, ret>>

\* action, up to the transport call: log the attempt, rewind the body, wrap
\* it in io.NopCloser, derive the attempt's context, hand the request to the
\* transport.  A failing Seek ends this run of action; retry.Do then counts
\* the attempt and goes round again.
ActionBegin(seekOk) ==
    LET hasBody == reqBody.kind # "nil"
        seekFails == reqBody.kind = "orig" /\ origBody.seekErr > 0 /\ ~seekOk
        logged == IF trace.sp
                  THEN [trace EXCEPT !.log = Append(@, [field |-> "attempt",
                                                        n |-> attemptCount, e |-> Nil])]
                  ELSE trace
    IN  /\ pc = "action"
        /\ ~seekOk => (reqBody.kind = "orig" /\ origBody.seekErr > 0)
        /\ trace' = logged
        /\ rewindErrs' = IF seekFails THEN rewindErrs + 1 ELSE rewindErrs
        /\ IF actionSeek(seekFails) # Nil
           THEN /\ err' = actionSeek(seekFails)
                /\ lastErr' = actionSeek(seekFails)
                /\ lastOut' = "seek"
                /\ should' = repeat(should, actionSeek(seekFails))
                /\ attempt' = attempt + 1
                /\ pc' = "strategies"
                /\ origBody' = [origBody EXCEPT !.seekErr = @ - 1]
                /\ UNCHANGED <<reqBody, observed, rewoundFrom, timer, leaked>>
           ELSE /\ origBody' = IF seekFails
                               THEN [origBody EXCEPT !.seekErr = @ - 1]
                               ELSE IF reqBody.kind = "orig"
                               THEN [origBody EXCEPT !.off = SeekStart(@)] ELSE origBody
                /\ reqBody' = IF reqBody.kind = "bytes"
                              THEN [reqBody EXCEPT !.off = SeekStart(@)] ELSE reqBody
                /\ rewoundFrom' = reqBodyOff
                /\ observed' = Append(observed,
                                  IF hasBody
                                  THEN SubSeq(reqBodyData, SeekStart(reqBodyOff) + 1,
                                              Len(reqBodyData))
                                  ELSE <<>>)
                /\ timer' = WithTimeout(requestOpts.retryPolicy.requestTimeout)
                /\ leaked' = IF live(timer) THEN leaked + 1 ELSE leaked
                /\ pc' = "transport"
                /\ UNCHANGED <<err, lastOut, lastErr, should, attempt>>
        /\ UNCHANGED <<options, configured, callOpts, gen, peerPc, heap, requestOpts, ctxErr, cancelPhase,
                       callsAtCancel, stratIdx, resp, attemptCount, okAt, bodyCloses,
                       wrapped, exit, ret>>

\* how c.client.Do can return for the invocation in flight: a response; a
\* network error; the error of the caller's context, if that is done; the
\* expiry of the attempt's timeout, if its timer ran out; a failed redirect
\* policy, which returns a response with a closed body beside the error
TransportOutcomes ==
    {"ok", "error", "redirect"}
      \cup (IF ctxErr # Nil THEN {"ctx"} ELSE {})
      \cup (IF timer.state = "expired" THEN {"timeout"} ELSE {})

TransportError(out) ==
    CASE out = "ok" -> Nil
      [] out = "error" -> errTransport
      [] out = "redirect" -> errRedirect
      [] out = "ctx" -> UrlError(ctxErr)
      [] OTHER -> UrlError(DeadlineExceeded)

\* the transport call returns, having read the body up to offset n and closed
\* the request body it was given; action counts the attempt, cancels the
\* timeout on failure or wraps the response body on success; retry.Do ends
\* the loop on success and goes round again on failure
TransportReturn(out, n) ==
    LET i == Len(observed)
        aErr == TransportError(out)
        closed == closeNopCloser([reqBody EXCEPT !.off = IF reqBody.kind = "bytes" THEN n ELSE @],
                                 [origBody EXCEPT !.off = IF reqBody.kind = "orig" THEN n ELSE @])
    IN  /\ pc = "transport"
        /\ out \in TransportOutcomes
        /\ n \in reqBodyOff..Len(reqBodyData)
        /\ origBody' = closed.orig
        /\ reqBody' = closed.rb
        /\ okAt' = IF out = "ok" THEN i ELSE okAt
        /\ lastOut' = out
        /\ lastErr' = aErr
        /\ attemptCount' = countAttempt(attemptCount, aErr)
        /\ resp' = IF out \in {"ok", "redirect"} THEN i ELSE 0
        /\ err' = aErr
        /\ attempt' = attempt + 1
        /\ should' = repeat(should, aErr)
        /\ pc' = IF repeat(should, aErr) THEN "strategies" ELSE "after"
        /\ exit' = IF repeat(should, aErr) THEN exit ELSE "success"
        /\ IF aErr # Nil
           THEN /\ timer' = onFailure(timer)
                /\ bodyCloses' = IF out = "redirect" THEN 1 ELSE 0
                /\ wrapped' = FALSE
           ELSE /\ timer' = onSuccess(timer)
                /\ wrapped' = TRUE
                /\ bodyCloses' = 0
        /\ rewoundFrom' = 0
        /\ UNCHANGED <<options, configured, callOpts, gen, peerPc, heap, requestOpts, ctxErr, cancelPhase,
                       callsAtCancel, stratIdx, observed, rewindErrs, leaked,
                       trace, ret>>

\* Do, after retry.Do returned err: tag the span; on an error close the body
\* of a response that came beside it and return (nil, err); otherwise return
\* (resp, nil).  The deferred reqBody.Close() runs on the way out.
DoReturn ==
    LET tagged == IF trace.sp
                  THEN [trace EXCEPT
                          !.tagAttemptCount = attemptCount,
                          !.log = IF err # Nil
                                  THEN Append(@, [field |-> "error", n |-> 0, e |-> err])
                                  ELSE @,
                          !.tagError = (err # Nil),
                          !.tagStatus = (err = Nil)]
                  ELSE trace
        dfr == closeReqBody(reqBody, origBody)
    IN  /\ pc = "after"
        /\ trace' = tagged
        /\ ret' = returned(resp, err)
        /\ IF err # Nil /\ resp # 0
           THEN /\ bodyCloses' = bodyCloses + 1
                /\ timer' = responseBodyClose(timer, wrapped)
           ELSE UNCHANGED <<bodyCloses, timer>>
        /\ UNCHANGED leaked
        /\ reqBody' = dfr.rb
        /\ origBody' = dfr.orig
        /\ pc' = "done"
        /\ UNCHANGED <<options, configured, callOpts, gen, peerPc, heap, requestOpts, ctxErr, cancelPhase,
                       callsAtCancel, attempt, should, err, stratIdx, resp,
                       attemptCount, observed, okAt, rewoundFrom, rewindErrs, wrapped,
                       lastOut, lastErr, exit>>

\* the caller calls Close on the body of the response Do returned
CloseResponseBody ==
    /\ pc = "done"
    /\ ret.resp # 0
    /\ bodyCloses < MaxCloses
    /\ bodyCloses' = bodyCloses + 1
    /\ timer' = responseBodyClose(timer, wrapped)
    /\ UNCHANGED leaked
    /\ UNCHANGED <<options, configured, callOpts, gen, peerPc, heap, pc, requestOpts, origBody, reqBody,
                   ctxErr, cancelPhase, callsAtCancel, attempt, should, err, stratIdx,
                   resp, attemptCount, observed, okAt, rewoundFrom, rewindErrs, wrapped,
                   lastOut, lastErr, exit, trace, ret>>

\* the timer of a context.WithTimeout that nobody cancelled runs out
TimerFire ==
    /\ timer.state = "running"
    /\ timer' = [timer EXCEPT !.state = "expired"]
    /\ UNCHANGED leaked
    /\ UNCHANGED <<options, configured, callOpts, gen, peerPc, heap, pc, requestOpts, origBody, reqBody,
                   ctxErr, cancelPhase, callsAtCancel, attempt, should, err, stratIdx,
                   resp, attemptCount, observed, okAt, rewoundFrom, rewindErrs,
                   bodyCloses, wrapped, lastOut, lastErr, exit, trace, ret>>

\* the caller's context is cancelled, or its deadline passes, before or
\* during the call
Cancel(e) ==
    /\ pc # "done"
    /\ ctxErr = Nil
    /\ ctxErr' = e
    /\ cancelPhase' = IF pc \in {"transport", "delay"} THEN pc ELSE "other"
    /\ callsAtCancel' = Len(observed)
    /\ UNCHANGED <<options, configured, callOpts, gen, peerPc, heap, pc, requestOpts, origBody, reqBody,
                   attempt, should, err, stratIdx, resp, attemptCount, observed,
                   okAt, rewoundFrom, rewindErrs, timer, leaked, bodyCloses, wrapped, lastOut, lastErr,
                   exit, trace, ret>>

Next ==
    \/ \E r \in Requests, opts \in CallOptLists, injectFails \in BOOLEAN :
          Do(r, opts, injectFails)
    \/ Strategies
    \/ Jitter
    \/ \E byDone \in BOOLEAN : DelayEnd(byDone)
    \/ Select
    \/ \E seekOk \in BOOLEAN : ActionBegin(seekOk)
    \/ \E out \in {"ok", "error", "redirect", "ctx", "timeout"}, n \in 0..MaxLen :
          TransportReturn(out, n)
    \/ DoReturn
    \/ CloseResponseBody
    \/ TimerFire
    \/ \E e \in {Canceled, DeadlineExceeded} : Cancel(e)

Spec == Init /\ [][Next]_vars

\* ------------------------------------------- two calls on the same client
\* A second goroutine calls Do on the same client, with no options of its
\* own, while the first call runs.  Its request goes out under the client's
\* retry policy; of its call only the first attempt and the back-off
\* strategy's use of Client.generator before the second are followed.
PeerDo ==
    /\ peerPc = "idle"
    /\ peerPc' = "attempt"
    /\ UNCHANGED <<options, configured, callOpts, gen, heap, pc, requestOpts,
                   origBody, reqBody, ctxErr, cancelPhase, callsAtCancel,
                   attempt, should, err, stratIdx, resp, attemptCount, observed,
                   okAt, rewoundFrom, rewindErrs, timer, leaked, bodyCloses,
                   wrapped, lastOut, lastErr, exit, trace, ret>>

\* the peer's first attempt fails and retry.Do asks the client's strategies
\* about the second: a back-off strategy computes its jitter
PeerAttemptFails ==
    LET r == evalStrategies(options.retryPolicy.retryStrategies, 1, 1)
    IN  /\ peerPc = "attempt"
        /\ IF r.block > 0
           THEN /\ peerPc' = "jitter"
                /\ gen' = generatorEnter(gen, "peer")
           ELSE /\ peerPc' = "done"
                /\ gen' = gen
        /\ UNCHANGED <<options, configured, callOpts, heap, pc, requestOpts,
                       origBody, reqBody, ctxErr, cancelPhase, callsAtCancel,
                       attempt, should, err, stratIdx, resp, attemptCount,
                       observed, okAt, rewoundFrom, rewindErrs, timer, leaked,
                       bodyCloses, wrapped, lastOut, lastErr, exit, trace, ret>>

\* the peer has its random number and starts its wait
PeerJitter ==
    /\ peerPc = "jitter"
    /\ peerPc' = "done"
    /\ gen' = generatorLeave(gen, "peer")
    /\ UNCHANGED <<options, configured, callOpts, heap, pc, requestOpts,
                   origBody, reqBody, ctxErr, cancelPhase, callsAtCancel,
                   attempt, should, err, stratIdx, resp, attemptCount,
                   observed, okAt, rewoundFrom, rewindErrs, timer, leaked,
                   bodyCloses, wrapped, lastOut, lastErr, exit, trace, ret>>

\* the clients of the two calls: built with the standard retry policy
ConcClientOptLists ==
    {<<OptStdRetry(500, MaxAttempts)>>,
     <<OptStdRetry(0, MaxAttempts), OptTracing(TRUE, "op", <<>>), OptInject>>}

InitConc ==
    /\ \E opts \in ConcClientOptLists :
          /\ options = New(opts).o
          /\ heap = New(opts).heap
          /\ configured = [opts |-> opts, o |-> New(opts).o,
                           tracing |-> TracingOf(New(opts).o, New(opts).heap)]
    /\ IdleCall

NextConc ==
    \/ Next
    \/ PeerDo
    \/ PeerAttemptFails
    \/ PeerJitter

SpecConc == InitConc /\ [][NextConc]_vars

\* ------------------------------------------------------------------ claims
\* the maximum attempt count of the policy in effect: the value of the
\* strategy.Limit that WithRetryPolicy and WithStandardRetryPolicy put first
AttemptLimit == requestOpts.retryPolicy.retryStrategies[1].value

\* the call went into retry.Do
InLoop == exit \in {"none", "success", "exhausted", "cancelled"} /\ pc # "idle"

\* C1: whenever Do (or Get, Head, Post) has returned, exactly one of the
\* returned response and the returned error is non-nil, on every return path.
C1_ExactlyOneOfResponseAndError ==
    pc = "done" => ((ret.resp = 0) # (ret.err = Nil))

\* C1 witness: retry exhaustion after a transport call that returned a
\* response beside its error: Do holds a response and returns (nil, err).
C1_Witness ==
    /\ pc = "done"
    /\ exit = "exhausted"
    /\ resp # 0
    /\ ret.resp = 0
    /\ ret.err = errRedirect

\* C2 as stated: at most N transport invocations, and exactly N when every
\* attempt failed and the caller's context was never cancelled.
C2_Original ==
    (pc = "done" /\ InLoop) =>
        /\ Len(observed) <= AttemptLimit
        /\ (exit = "exhausted" /\ ctxErr = Nil) => Len(observed) = AttemptLimit

\* C2 amended: at most N transport invocations; when every attempt failed and
\* the context was never cancelled, N attempts were made, and the transport
\* was invoked in each of them but those that ended at a failing body rewind,
\* so exactly N times when no rewind failed.
C2_TransportInvocationsBounded ==
    /\ InLoop => Len(observed) <= AttemptLimit
    /\ (pc = "done" /\ InLoop /\ exit = "exhausted" /\ ctxErr = Nil) =>
          /\ attempt = AttemptLimit
          /\ Len(observed) = AttemptLimit - rewindErrs
          /\ rewindErrs = 0 => Len(observed) = AttemptLimit

\* C2 witness: every one of N = 2 attempts reached the transport and failed.
C2_Witness ==
    /\ pc = "done"
    /\ exit = "exhausted"
    /\ ctxErr = Nil
    /\ AttemptLimit = 2
    /\ rewindErrs = 0
    /\ Len(observed) = 2

\* C3: once a transport invocation k has returned a response without error,
\* no further invocation is made, k is within the attempt limit, and Do
\* returns that response with a nil error after exactly k invocations.
C3_SuccessIsTerminal ==
    okAt # 0 =>
        /\ Len(observed) = okAt
        /\ okAt <= AttemptLimit
        /\ pc \in {"after", "done"}
        /\ pc = "done" => (ret = [resp |-> okAt, err |-> Nil] /\ attemptCount = okAt)

\* C3 witness: the first attempt failed, the second returned a response, and
\* Do returned it.
C3_Witness ==
    /\ pc = "done"
    /\ okAt = 2
    /\ ret.resp = 2
    /\ ret.err = Nil

\* C4: when the strategies decline another attempt and the caller's context
\* is not done, Do returns a nil response and the error of the most recent
\* failed attempt; an attempt that ran into its timeout gives the expiry of
\* that timeout.
C4_ExhaustionReturnsLastError ==
    (pc = "done" /\ exit = "exhausted" /\ lastOut # "none") =>
        /\ ret.resp = 0
        /\ lastErr # Nil
        /\ ret.err = lastErr
        /\ lastOut = "timeout" => ret.err = UrlError(DeadlineExceeded)

\* C4 witness: max attempts 1, the only attempt ran into its timeout, the
\* caller's context was never done.
C4_Witness ==
    /\ pc = "done"
    /\ exit = "exhausted"
    /\ AttemptLimit = 1
    /\ lastOut = "timeout"
    /\ ctxErr = Nil
    /\ ret = [resp |-> 0, err |-> UrlError(DeadlineExceeded)]

\* C5 as stated: when the caller's context is done while a transport call is
\* outstanding or a strategy delay is in progress, Do returns a nil response
\* and the context's own error, and starts no transport invocation afterwards.
C5_Original ==
    (pc = "done" /\ cancelPhase \in {"transport", "delay"}) =>
        /\ ret = [resp |-> 0, err |-> ctxErr]
        /\ Len(observed) = callsAtCancel

\* C5 amended: in that case no transport invocation is started after the
\* cancellation, and Do returns a nil response and the context's own error
\* (not the transport error of the attempt in flight, also when that attempt
\* was the last one the limit allows), unless the outstanding transport call
\* still returns a response without error: then Do returns that response
\* with a nil error.
C5_CancellationTakesPrecedence ==
    cancelPhase \in {"transport", "delay"} =>
        /\ Len(observed) = callsAtCancel
        /\ okAt # 0 => (cancelPhase = "transport" /\ okAt = callsAtCancel)
        /\ pc = "done" =>
              IF okAt # 0
              THEN ret = [resp |-> okAt, err |-> Nil]
              ELSE ret = [resp |-> 0, err |-> ctxErr] /\ ctxErr # lastErr

\* C5 witness: the context was done during the last attempt the limit allows,
\* the transport call failed with an error of its own, and Do returned the
\* context's error.
C5_Witness ==
    /\ pc = "done"
    /\ cancelPhase = "transport"
    /\ attempt = AttemptLimit
    /\ lastOut = "error"
    /\ ret = [resp |-> 0, err |-> DeadlineExceeded]

\* C6: a replayable body is closed by nobody while the call runs, whatever
\* the number of attempts and transport calls, and exactly once when Do has
\* returned, on success and on failure; a caller's io.ReadSeekCloser, which
\* is that body's source, is closed with it and not before.
C6_RequestBodyClosedOnceOnReturn ==
    /\ reqBody.kind # "nil" => reqBody.closeCalls = (IF pc = "done" THEN 1 ELSE 0)
    /\ (origBody.isRSC /\ pc # "idle" /\ exit # "newrequest") =>
          origBody.closeCount = (IF pc = "done" THEN 1 ELSE 0)
    /\ (origBody.present /\ ~origBody.isRSC) => origBody.closeCount <= 1

\* C6 witness: a caller's io.ReadSeekCloser went through two attempts, Do
\* returned the response, and the body was closed once.
C6_Witness ==
    /\ pc = "done"
    /\ reqBody.kind = "orig"
    /\ Len(observed) = 2
    /\ ret.resp = 2
    /\ reqBody.closeCalls = 1
    /\ origBody.closeCount = 1

\* C7: every transport invocation is given the body at offset zero, with
\* exactly the bytes of the original body, wherever the previous attempt
\* left the offset.
C7_EveryAttemptSeesWholeBody ==
    /\ \A i \in 1..Len(observed) : observed[i] = origBody.data
    /\ (pc = "transport" /\ reqBody.kind # "nil") => reqBodyOff = 0

\* C7 witness: a body given as bytes, read to its end by the first attempt,
\* is seen whole by the second.
C7_Witness ==
    /\ pc = "transport"
    /\ reqBody.kind = "bytes"
    /\ Len(observed) = 2
    /\ rewoundFrom = MaxLen
    /\ observed[2] = Bytes(MaxLen)

\* C8: after a failed transport call the cancelFunc of that attempt has been
\* called by the time the strategies are asked and before the next attempt
\* derives its context; at no point is more than one per-attempt timeout
\* without its cancel.
C8_FailedAttemptCancelsAtOnce ==
    /\ leaked + (IF live(timer) THEN 1 ELSE 0) <= 1
    /\ pc \in {"strategies", "jitter", "delay", "select", "action"} =>
          (~live(timer) /\ leaked = 0)

\* C8 witness: an attempt ran into its timeout; the strategies are about to be
\* asked and its cancelFunc has been called.
C8_Witness ==
    /\ pc = "strategies"
    /\ lastOut = "timeout"
    /\ timer = [state |-> "cancelled", cancels |-> 1]

\* C9: after an attempt with a timeout returned a response, the cancelFunc of
\* that attempt is not called by Do: it has not been called while the caller
\* has not closed the response body, and once the caller has closed it no
\* per-attempt timeout of the call is left without its cancel.
C9_CancelDeferredToBodyClose ==
    (okAt # 0 /\ requestOpts.retryPolicy.requestTimeout # 0) =>
        /\ wrapped
        /\ pc = "after" => bodyCloses = 0
        /\ bodyCloses = 0 => (timer.cancels = 0 /\ live(timer))
        /\ bodyCloses >= 1 => (timer.cancels >= 1 /\ ~live(timer) /\ leaked = 0)

\* C9 witness: Do returned a response, the caller closed its body once, and
\* that Close called the cancelFunc.
C9_Witness ==
    /\ pc = "done"
    /\ ret.resp # 0
    /\ bodyCloses = 1
    /\ timer = [state |-> "cancelled", cancels |-> 1]

\* C10 as stated: between the return of Do and the caller's Close of the
\* response body, the timeout does not cancel the context of the attempt.
C10_Original ==
    [][(pc = "done" /\ ret.resp # 0 /\ bodyCloses = 0 /\ timer.state = "running")
          => timer'.state # "expired"]_vars

\* C10 amended: after an attempt has produced a response Do neither calls the
\* cancelFunc nor stops the timer: until the caller closes the response body
\* the timeout is still running or has run out, so it goes on bounding the
\* caller's reading of the body.
C10_TimeoutStillRunsAfterResponse ==
    (pc = "done" /\ ret.resp # 0 /\ bodyCloses = 0
       /\ requestOpts.retryPolicy.requestTimeout # 0) =>
        /\ timer.state \in {"running", "expired"}
        /\ timer.cancels = 0

\* C10 witness: Do has returned a response, the caller has not closed its
\* body, and the timeout of the attempt has run out.
C10_Witness ==
    /\ pc = "done"
    /\ ret.resp # 0
    /\ bodyCloses = 0
    /\ timer.state = "expired"

\* the options of the call that set a retry policy, those that are
\* WithTracingOptions, and whether WithSpanCarrierInjected is among them
RetryOptsOfCall ==
    SelectSeq(callOpts,
              LAMBDA fo : fo.opt \in {"WithRetryPolicy", "WithStandardRetryPolicy"})
TracingOptsOfCall ==
    SelectSeq(callOpts, LAMBDA fo : fo.opt = "WithTracingOptions")
InjectOptOfCall ==
    \E i \in 1..Len(callOpts) : callOpts[i].opt = "WithSpanCarrierInjected"

\* the configuration a list of options makes on its own, from empty options
Alone(opts) == applyAll([o |-> EmptyOptions, heap |-> <<>>], opts)

\* the call has merged its options
Merged == pc # "idle" /\ exit # "newrequest"

\* C11: when Do has returned an error, every per-attempt timeout of the call
\* has had its cancelFunc called, the replayable request body has been closed
\* (and the caller's body with it), and a response that came during the call
\* has its body closed and is not returned; when Do has returned a response,
\* the request body has been closed and no timeout of an earlier attempt is
\* left: what is open is the response body, with the timeout of its attempt,
\* which its Close releases.
C11_NothingLeftOpenOnError ==
    (pc = "done" /\ exit # "newrequest") =>
        /\ leaked = 0
        /\ reqBody.kind # "nil" => reqBody.closeCalls = 1
        /\ origBody.present => origBody.closeCount = 1
        /\ ret.err # Nil =>
              /\ ~live(timer)
              /\ ret.resp = 0
              /\ resp # 0 => bodyCloses >= 1
        /\ ret.err = Nil =>
              /\ ret.resp # 0 /\ ret.resp = resp
              /\ live(timer) => (wrapped /\ bodyCloses = 0)

\* C11 witness: two attempts under a timeout with a caller's io.ReadSeekCloser
\* as body; the second came back with a response beside its error; Do
\* returned the error with everything closed.
C11_Witness ==
    /\ pc = "done"
    /\ ret.err # Nil
    /\ resp = 2
    /\ bodyCloses >= 1
    /\ timer.cancels = 1
    /\ reqBody.kind = "orig"
    /\ origBody.closeCount = 1

\* C12 as stated: a retry policy given to the call is the policy of the call,
\* and a tracing option given to the call leaves no field of the client's
\* tracing configuration in force: the call's enabled flag, span options and
\* carrier-injection toggle are those the options of the call make on their own.
C12_Original ==
    Merged =>
        /\ RetryOptsOfCall # <<>> =>
              requestOpts.retryPolicy = Alone(RetryOptsOfCall).o.retryPolicy
        /\ (TracingOptsOfCall # <<>> \/ InjectOptOfCall) =>
              TracingOf(requestOpts, heap) = TracingOf(Alone(callOpts).o, Alone(callOpts).heap)

\* C12 amended: a retry policy given to the call replaces the client's in
\* full; a tracing option given to the call replaces only the fields it
\* sets: WithTracingOptions sets the enabled flag, the operation name and the
\* span options, WithSpanCarrierInjected turns the carrier injection on, and
\* every other field is the client's, so the client's carrier-injection
\* toggle stays in force under a WithTracingOptions of the call.
C12_PerCallOptionsOverrideFieldwise ==
    Merged =>
        LET t == TracingOf(requestOpts, heap)
            c == configured.tracing
            wt == TracingOptsOfCall
        IN  /\ RetryOptsOfCall # <<>> =>
                  requestOpts.retryPolicy = Alone(RetryOptsOfCall).o.retryPolicy
            /\ RetryOptsOfCall = <<>> =>
                  requestOpts.retryPolicy = configured.o.retryPolicy
            /\ wt # <<>> =>
                  /\ t.enabled = wt[Len(wt)].enabled
                  /\ t.spanOptions = wt[Len(wt)].spanOptions
                  /\ requestOpts.operationName = wt[Len(wt)].operationName
            /\ wt = <<>> =>
                  /\ t.enabled = c.enabled
                  /\ t.spanOptions = c.spanOptions
                  /\ requestOpts.operationName = configured.o.operationName
            /\ t.injectCarrier = (c.injectCarrier \/ InjectOptOfCall)

\* C12 witness: the client was built with span options and carrier injection,
\* the call was given WithTracingOptions alone, and its span was started
\* under the call's name without the client's span options and with the
\* client's carrier injection.
C12_Witness ==
    /\ pc = "transport"
    /\ callOpts = <<OptTracing(TRUE, "call", <<>>)>>
    /\ configured.tracing.spanOptions = <<"tag">>
    /\ configured.tracing.injectCarrier
    /\ trace.opName = "HTTP Egress - call"
    /\ trace.tagOptions = <<>>
    /\ trace.injected

\* C13: the client's default options are read-only after New: whatever
\* options the calls are given, the client's options, and the tracing
\* configuration they point to, are those New made.
C13_ClientDefaultsReadOnly ==
    /\ options = configured.o
    /\ TracingOf(options, heap) = configured.tracing

\* C14: Client.generator is shared by all the calls of a client and is safe
\* for concurrent use: when two calls are retrying at the same time, never
\* two of them are inside the generator at once.
C14_GeneratorMutualExclusion ==
    Cardinality(gen) <= 1

\* what the options of the client and of the call ask for: tracing enabled
\* (the last WithTracingOptions decides), carrier injection requested
TracingEnabledForCall ==
    IF TracingOptsOfCall # <<>>
    THEN TracingOptsOfCall[Len(TracingOptsOfCall)].enabled
    ELSE configured.tracing.enabled
InjectionRequested == configured.tracing.injectCarrier \/ InjectOptOfCall

\* C15: with tracing disabled (no tracing options, or enabled = false) the
\* call starts no span, runs under the context of the request as it was and
\* writes no trace header, also when carrier injection was requested; with
\* tracing enabled, headers are written only when carrier injection was
\* requested.
C15_NoSpanNoHeaderWhenDisabled ==
    Merged =>
        /\ ~TracingEnabledForCall =>
              (trace.started = 0 /\ ~trace.sp /\ ~trace.ctxSpan /\ ~trace.injected)
        /\ trace.injected => (TracingEnabledForCall /\ InjectionRequested)

\* C15 witness: carrier injection was requested and tracing is disabled; the
\* request is with the transport, and there is no span and no header.
C15_Witness ==
    /\ pc = "transport"
    /\ InjectionRequested
    /\ ~TracingEnabledForCall
    /\ trace = NoTrace

\* C16: with tracing enabled a call starts at most one span, and the span has
\* been finished when Do has returned, on success and on every error return
\* (a failed carrier injection among them).
C16_SpanFinishedOnReturn ==
    /\ trace.started <= 1
    /\ pc = "done" => trace.finished = trace.started

\* the retry options New was given
RetryOptsOfClient ==
    SelectSeq(configured.opts,
              LAMBDA fo : fo.opt \in {"WithRetryPolicy", "WithStandardRetryPolicy"})

\* C17: the retry policy of the client, and of every call, has a strategy
\* that limits the attempts, and has it first: New installs the standard
\* policy (limit defaultMaxRetries, then back-off with jitter, timeout
\* defaultReqTimeout) when it is given no retry option, and WithRetryPolicy
\* and WithStandardRetryPolicy put strategy.Limit(maxRetries) before the
\* strategies that follow.
C17_AttemptLimitAlwaysFirst ==
    /\ options.retryPolicy.set
    /\ options.retryPolicy.retryStrategies[1].kind = "Limit"
    /\ RetryOptsOfClient = <<>> =>
          options.retryPolicy =
              [set |-> TRUE, requestTimeout |-> defaultReqTimeout,
               retryStrategies |-> <<Limit(defaultMaxRetries), StandardBackOffStrategy>>]
    /\ RetryOptsOfClient # <<>> =>
          options.retryPolicy.retryStrategies[1] =
              Limit(RetryOptsOfClient[Len(RetryOptsOfClient)].maxRetries)
    /\ Merged =>
          /\ requestOpts.retryPolicy.set
          /\ requestOpts.retryPolicy.retryStrategies[1].kind = "Limit"
          /\ RetryOptsOfCall # <<>> =>
                requestOpts.retryPolicy.retryStrategies =
                    <<Limit(RetryOptsOfCall[Len(RetryOptsOfCall)].maxRetries)>>
                      \o (IF RetryOptsOfCall[Len(RetryOptsOfCall)].opt = "WithRetryPolicy"
                          THEN RetryOptsOfCall[Len(RetryOptsOfCall)].strategies
                          ELSE <<StandardBackOffStrategy>>)

\* C17 witness: New was given no option and installed the standard policy;
\* the call was given WithRetryPolicy with a strategy of the caller, and runs
\* with the limit before that strategy.
C17_Witness ==
    /\ pc = "transport"
    /\ configured.opts = <<>>
    /\ options.retryPolicy.retryStrategies[1] = Limit(defaultMaxRetries)
    /\ callOpts = <<OptRetryWith(0, 1, <<StandardBackOffStrategy>>)>>
    /\ requestOpts.retryPolicy.retryStrategies = <<Limit(1), StandardBackOffStrategy>>

\* C18: when the original body cannot be read while it is captured, Do
\* returns at once with that error (wrapped), having made no transport
\* invocation and started no span, and the original body has been closed.
C18_UnreadableBodyFailsAtOnce ==
    (Merged /\ origBody.readErr) =>
        /\ pc = "done"
        /\ exit = "bodyprep"
        /\ ret = [resp |-> 0, err |-> Wrap(errRead, "error preparing request body")]
        /\ Len(observed) = 0
        /\ attemptCount = 0
        /\ trace.started = 0
        /\ origBody.closeCount = 1

\* C18 witness: a call with tracing enabled whose body failed to read.
C18_Witness ==
    /\ pc = "done"
    /\ exit = "bodyprep"
    /\ origBody.readErr
    /\ TracingEnabledForCall
    /\ origBody.closeCount = 1

\* C19: when carrier injection was requested and the injection fails, Do
\* returns at once with a nil response and an error, and makes no transport
\* invocation; no request goes to the transport without the trace headers
\* that the options in force ask for.
C19_InjectionFailureFailsAtOnce ==
    /\ trace.injectErr =>
          /\ pc = "done"
          /\ ret = [resp |-> 0,
                    err |-> Wrap(errInject, "error starting and injecting tracing span")]
          /\ Len(observed) = 0
    /\ (Len(observed) > 0 /\ TracingEnabledForCall /\ InjectionRequested) =>
          trace.injected

\* C19 witness: the injection failed for a call with a body; Do returned the
\* error and the transport was never invoked.
C19_Witness ==
    /\ pc = "done"
    /\ exit = "span"
    /\ trace.injectErr
    /\ origBody.present
    /\ ret.resp = 0
    /\ Len(observed) = 0

\* C20: a failing rewind of the request body is the failure of its attempt
\* and goes to the retry strategies as a transport error does: the round
\* makes no transport invocation (every round is either one invocation or
\* one failed rewind), the loop goes on to ask the strategies, it ends after
\* such a round only when the strategies decline or the caller's context is
\* done, and when the strategies decline Do returns the rewind error.
C20_RewindFailureIsRetryableAttempt ==
    /\ InLoop =>
          attempt + (IF pc = "transport" THEN 1 ELSE 0) = Len(observed) + rewindErrs
    /\ (lastOut = "seek" /\ pc \in {"strategies", "jitter", "delay"}) => should
    /\ (lastOut = "seek" /\ pc = "done") =>
          /\ exit \in {"exhausted", "cancelled"}
          /\ exit = "exhausted" =>
                /\ attempt = AttemptLimit
                /\ ret = [resp |-> 0, err |-> errSeek]

\* C20 witness: the rewind failed in the first round, without a transport
\* invocation; the strategies allowed a second round, and its request is
\* with the transport.
C20_Witness ==
    /\ pc = "transport"
    /\ rewindErrs = 1
    /\ attempt = 1
    /\ Len(observed) = 1

\* the "attempt" fields logged on the span, in the order they were logged
AttemptLog == SelectSeq(trace.log, LAMBDA l : l.field = "attempt")

\* C21: the attempts of a call run one after another, in increasing order,
\* with at most one transport call outstanding; attemptCount goes up by one
\* with every transport invocation that returns, failed or not; the
\* "attempt" field of an attempt is on the span before the transport call
\* of that attempt; and the http.attempt_count tag set after the loop is the
\* number of transport invocations made.
C21_AttemptsSequentialAndCounted ==
    /\ Len(observed) = attemptCount + (IF pc = "transport" THEN 1 ELSE 0)
    /\ trace.sp =>
          /\ \A i \in 1..Len(observed) :
                \E j \in 1..Len(AttemptLog) : AttemptLog[j].n = i - 1
          /\ \A j, k \in 1..Len(AttemptLog) :
                j < k => AttemptLog[j].n <= AttemptLog[k].n
          /\ pc = "transport" =>
                AttemptLog[Len(AttemptLog)].n = Len(observed) - 1
    /\ (pc = "done" /\ trace.sp) => trace.tagAttemptCount = Len(observed)

\* C21 witness: a traced call made two transport invocations, both failed,
\* and the span carries two attempt fields and the count 2.
C21_Witness ==
    /\ pc = "done"
    /\ trace.sp
    /\ okAt = 0
    /\ Len(observed) = 2
    /\ Len(AttemptLog) = 2
    /\ trace.tagAttemptCount = 2

\* C22 as stated: over the life of a response Do returned, the cancelFunc of
\* its attempt is called exactly once, however often the caller calls Close.
C22_Original ==
    (pc = "done" /\ ret.resp # 0 /\ requestOpts.retryPolicy.requestTimeout # 0
       /\ bodyCloses >= 1) =>
        timer.cancels = 1

\* C22 amended: the wrapper calls the cancelFunc of the attempt once on every
\* Close of the response body: as often as the caller calls Close, and not
\* at all while the caller has not; the first call cancels the context of
\* the attempt and the later calls find it cancelled.
C22_CancelCalledOnEveryClose ==
    (pc = "done" /\ ret.resp # 0 /\ requestOpts.retryPolicy.requestTimeout # 0) =>
        /\ timer.cancels = bodyCloses
        /\ bodyCloses = 0 => live(timer)
        /\ bodyCloses >= 1 => timer.state = "cancelled"

\* C22 witness: the caller closed the response body twice and the cancelFunc
\* was called twice.
C22_Witness ==
    /\ pc = "done"
    /\ ret.resp # 0
    /\ bodyCloses = 2
    /\ timer = [state |-> "cancelled", cancels |-> 2]

====
